---- MODULE Spec2Model ----
(***************************************************************************)
(* Model of src/api.py: the FastAPI backend of the Telegram Mini App.      *)
(*                                                                         *)
(* The shared state is the SQLite database (tables users and referrals)    *)
(* and the process configuration (BOT_TOKEN).  Every HTTP request is a     *)
(* coroutine; between two awaits a coroutine runs atomically, so each      *)
(* action below is the code of one handler from one await to the next.     *)
(* An await is folded into the step before or after it only when the       *)
(* program can tell no difference: aiosqlite.connect and the aiohttp       *)
(* session calls touch no shared state.  The read of users, the COUNT on   *)
(* referrals, the UPDATE, the commit and the close of the connection that  *)
(* follows them are steps of their own,                                    *)
(* so a profile may be answered from a record read before another          *)
(* request's commit, and a commit is visible before its request is         *)
(* answered.  The handlers root and health read and write none of this     *)
(* state and have no action.                                               *)
(* Requests in flight are kept in a bag (they have no identity beyond      *)
(* their arguments and position).  The response a step sends, if any, is   *)
(* the value of `out` after that step; it is NoOut after any other step.   *)
(*                                                                         *)
(* Strings of the source that are not ASCII are written in ASCII:          *)
(* "Oven" etc. for the Russian zodiac labels, "U+2648".."U+2653" for the   *)
(* emoji.  Python's None is the value None below.  subscription_until is   *)
(* TEXT in the database; the ISO strings the model uses are IsoTimes, and  *)
(* FromIsoFormat maps them to seconds.                                     *)
(***************************************************************************)
EXTENDS Integers, Sequences, FiniteSets, Bags, TLC

VARIABLES
    users,       \* table users: user_id -> row (the domain is the set of rows)
    referrals,   \* table referrals: set of <<referrer_id, referred_id>>
    BOT_TOKEN,   \* os.getenv("BOT_TOKEN", "")
    inflight,    \* bag of requests suspended at an await
    out,         \* the response sent by the last step, or NoOut
    useDone,     \* history: for each row of users, the number of use_reading
                 \* requests for it answered after meeting no storage failure
    initial,     \* history: user_id -> free_readings_used at start (0 if no row)
    vin,         \* Init-Data Verifier: its input (raw string, bot token), or NoInput
    vres         \* Init-Data Verifier: its result, or NotVerified

svars == <<users, referrals, BOT_TOKEN, inflight, out, useDone, initial>>
vars == <<users, referrals, BOT_TOKEN, inflight, out, useDone, initial,
          vin, vres>>

(***************************************************************************)
(* Bounds of the model.                                                    *)
(***************************************************************************)
MaxInFlight == 2      \* requests suspended at the same time
MaxUse == 2           \* use_reading requests accepted in one behaviour
MaxTime == 2          \* datetime.now() ranges over 0..MaxTime seconds

STARS_PRICE == 250

None == "<None>"
NoOut == <<>>
NoLoc == <<>>
NoTime == -1

UserIds == {1, 2}
Now == 0..MaxTime

IsoTimes == <<"2026-01-01T00:00:00", "2026-01-01T00:00:01", "2026-01-01T00:00:02",
              "2026-01-01T00:00:03", "2026-01-01T00:00:04">>

\* datetime.fromisoformat: the seconds of a well-formed string, ParseError otherwise
ParseError == -1
FromIsoFormat(s) ==
    IF \E i \in DOMAIN IsoTimes : IsoTimes[i] = s
    THEN (CHOOSE i \in DOMAIN IsoTimes : IsoTimes[i] = s) - 1
    ELSE ParseError

\* Python truthiness of a column value: None and "" are falsy
Truthy(v) == v # None /\ v # ""

\* dict.get(key, default)
Get(d, key, default) == IF key \in DOMAIN d THEN d[key] ELSE default

zodiac_map ==
    [aries |-> <<"Oven", "U+2648">>, taurus |-> <<"Telets", "U+2649">>,
     gemini |-> <<"Bliznetsy", "U+264A">>, cancer |-> <<"Rak", "U+264B">>,
     leo |-> <<"Lev", "U+264C">>, virgo |-> <<"Deva", "U+264D">>,
     libra |-> <<"Vesy", "U+264E">>, scorpio |-> <<"Skorpion", "U+264F">>,
     sagittarius |-> <<"Strelets", "U+2650">>, capricorn |-> <<"Kozerog", "U+2651">>,
     aquarius |-> <<"Vodoley", "U+2652">>, pisces |-> <<"Ryby", "U+2653">>]

ZodiacInfo(user) == Get(zodiac_map, Get(user, "zodiac_sign", ""), <<"Oven", "U+2648">>)

(***************************************************************************)
(* get_user_data: the three records it can return.                         *)
(***************************************************************************)
AbsentProfile(user_id) ==
    [userId |-> user_id, isPremium |-> FALSE, freeUsed |-> 0, readings |-> 0,
     bonusDays |-> 0]

ErrorProfile(user_id) ==
    [userId |-> user_id, isPremium |-> FALSE, freeUsed |-> 0, readings |-> 0]

FullProfile(user_id, user, is_premium, nreferrals) ==
    [userId |-> user_id,
     userName |-> Get(user, "first_name", "Putnik"),
     zodiac |-> ZodiacInfo(user)[1],
     zodiacEmoji |-> ZodiacInfo(user)[2],
     isPremium |-> is_premium,
     freeUsed |-> Get(user, "free_readings_used", 0),
     readings |-> Get(user, "free_readings_used", 0),
     referrals |-> nreferrals,
     bonusDays |-> Get(user, "referral_bonus_days", 0)]

\* lines 64-67; SubscriptionParseFails is the case where fromisoformat raises
SubscriptionParseFails(user) ==
    /\ Truthy(Get(user, "subscription_until", None))
    /\ FromIsoFormat(user["subscription_until"]) = ParseError

\* mutant of IsPremium: the comparison is not strict
IsPremiumNotStrict(user, now) ==
    IF Truthy(Get(user, "subscription_until", None))
    THEN FromIsoFormat(user["subscription_until"]) >= now
    ELSE FALSE

IsPremium(user, now) ==
    IF Truthy(Get(user, "subscription_until", None))
    THEN FromIsoFormat(user["subscription_until"]) > now
    ELSE FALSE

\* datetime.now() is called only when subscription_until is truthy
NowRead(user, now) ==
    IF Truthy(Get(user, "subscription_until", None)) THEN now ELSE NoTime

\* SELECT COUNT(*) FROM referrals WHERE referrer_id = ?
CountReferrals(user_id) == Cardinality({p \in referrals : p[1] = user_id})

(***************************************************************************)
(* Exceptions.  A function either returns a value or raises; the four      *)
(* functions that touch the database or the network wrap that code in      *)
(* try / except Exception, and the except clause returns a value.          *)
(***************************************************************************)
Ret(v) == [raised |-> FALSE, value |-> v]
Raise == [raised |-> TRUE, value |-> None]

\* mutant of Caught: increment_readings lets the exception through
CaughtNotIncrement(fn) ==
    fn \in {"get_user_data", "create_stars_invoice", "send_message_to_user"}

Caught(fn) ==
    fn \in {"get_user_data", "increment_readings", "create_stars_invoice",
            "send_message_to_user"}

\* the except clause of fn, which returns v
Except(fn, v) == IF Caught(fn) THEN Ret(v) ELSE Raise

\* what the framework sends for the handler's result r: the JSON body, or the
\* plain-text 500 of an exception that left the handler
Http(r, body) ==
    IF r.raised THEN [status |-> 500, body |-> [plain |-> "Internal Server Error"]]
    ELSE [status |-> 200, body |-> body]

(***************************************************************************)
(* Requests and responses.                                                 *)
(***************************************************************************)
Recognized == {"use_reading", "tarot_reading", "buy_subscription", "buy_premium",
               "horoscope", "compatibility", "money_forecast", "karma_analysis",
               "share_referral"}
\* the action strings of the requests the model sends
Actions == {"use_reading", "tarot_reading", "buy_subscription", "dance",
            "USE_READING"}
Products == {"premium"}
\* the (action, data) pairs of the requests the model sends
Bodies == {<<a, <<>>>> : a \in Actions}
            \cup {<<"compatibility", [score |-> 42]>>}
\* the requests to /api/action the model sends: user 2, who has no row, sends
\* use_reading only
ActionInputs == {<<u, b>> \in UserIds \X Bodies : u = 1 \/ b[1] = "use_reading"}
Methods == {"stars", "yookassa", "card"}
\* the requests to /api/create-invoice the model sends
InvoiceInputs == {1} \X Products \X Methods

GetUserReq(user_id) == [ep |-> "get_user", user_id |-> user_id]
ActionReq(user_id, action, data) ==
    [ep |-> "action", user_id |-> user_id, action |-> action, data |-> data]
InvoiceReq(user_id, product, method) ==
    [ep |-> "create_invoice", user_id |-> user_id, product |-> product,
     method |-> method]

Item(req, pc, loc) == [req |-> req, pc |-> pc, loc |-> loc]

\* the response of a step: fail is the failure the request met ("none" if none),
\* calls the Bot API calls it made, now_at the datetime.now() it read (NoTime if
\* it read none)
Event(req, http, fail, calls, now_at) ==
    [req |-> req, status |-> http.status, body |-> http.body, fail |-> fail,
     calls |-> calls, now_at |-> now_at]

Pending == BagToSet(inflight)
Remove(it) == inflight (-) SetToBag({it})
Replace(it, it2) == (inflight (-) SetToBag({it})) (+) SetToBag({it2})
CanAccept == BagCardinality(inflight) < MaxInFlight

Sum(f) == LET S[D \in SUBSET DOMAIN f] ==
                  IF D = {} THEN 0
                  ELSE LET x == CHOOSE x \in D : TRUE IN f[x] + S[D \ {x}]
          IN S[DOMAIN f]

IncPcs == {"inc_update", "inc_commit", "inc_close"}

\* use_reading requests accepted so far
UseIssued ==
    Sum(useDone) + BagCardinality([it \in {i \in Pending : i.pc \in IncPcs}
                                    |-> inflight[it]])

\* A connection whose commit failed with "database is locked": the transaction
\* is not rolled back, and the connection keeps its lock until it is closed.
\* A commit refused for another reason (a disk I/O error) is rolled back and
\* leaves no lock.
CommitLocked(it) == it.pc = "inc_close" /\ it.loc.fail = "commit_locked"

\* SQLite's write lock: held from the UPDATE to the commit, and after a commit
\* that failed with "database is locked" to the close of the connection
WriteLocked == \E it \in Pending : it.pc = "inc_commit" \/ CommitLocked(it)

\* a connection whose commit failed with "database is locked" keeps new readers
\* out until it is closed
ReadLocked == \E it \in Pending : CommitLocked(it)

\* a connection's SELECT proceeds when no connection keeps readers out
CanRead == ~ReadLocked

(***************************************************************************)
(* GET /api/user/{user_id}: get_user and get_user_data.                    *)
(***************************************************************************)
\* the handler returns JSONResponse(data)
get_user(req, r, fail, now_at) ==
    Event(req, Http(r, r.value), fail, <<>>, now_at)

\* the except clause of get_user_data
get_user_data_except(user_id) == Except("get_user_data", ErrorProfile(user_id))

StartGetUser(user_id) ==
    /\ CanAccept
    /\ inflight' = inflight (+) SetToBag({Item(GetUserReq(user_id), "select_user", NoLoc)})
    /\ out' = NoOut
    /\ UNCHANGED <<users, referrals, BOT_TOKEN, useDone, initial, vin, vres>>

\* the request leaves "async with aiosqlite.connect" with the result r: the
\* connection is still to be closed, and the close is awaited
GetUserLeave(it, r, fail, now_at) ==
    /\ inflight' = Replace(it, Item(it.req, "close",
                                    [r |-> r, fail |-> fail, now_at |-> now_at]))
    /\ out' = NoOut

\* aiosqlite.connect (which touches no shared state), SELECT * FROM users, and
\* the code that runs without an await after it: the test of the record, the
\* parse of subscription_until and datetime.now().  fail is the place of a
\* storage failure ("none" if there is none), now the value of datetime.now().
\* The SELECT waits while a connection keeps readers out (or fails: user_query).
\* A connect that fails leaves no connection to close: the except clause runs
\* and the handler answers in the same step.
GetUserSelect(it, fail, now) ==
    /\ it \in Pending /\ it.req.ep = "get_user" /\ it.pc = "select_user"
    /\ LET user_id == it.req.user_id IN
       IF fail = "connect"
       THEN /\ inflight' = Remove(it)
            /\ out' = get_user(it.req, get_user_data_except(user_id), fail, NoTime)
       ELSE IF fail = "user_query"
       THEN GetUserLeave(it, get_user_data_except(user_id), fail, NoTime)
       ELSE IF ~CanRead
       THEN FALSE
       ELSE IF user_id \notin DOMAIN users
       THEN GetUserLeave(it, Ret(AbsentProfile(user_id)), "none", NoTime)
       ELSE LET user == users[user_id] IN
            IF SubscriptionParseFails(user)
            THEN GetUserLeave(it, get_user_data_except(user_id), "parse", NoTime)
            ELSE /\ inflight' = Replace(it, Item(it.req, "count_referrals",
                                   [user |-> user,
                                    is_premium |-> IsPremium(user, now),
                                    now_at |-> NowRead(user, now)]))
                 /\ out' = NoOut
    /\ UNCHANGED <<users, referrals, BOT_TOKEN, useDone, initial, vin, vres>>

\* SELECT COUNT(*) FROM referrals, and the dict built from the record read by
\* the first query.  The COUNT waits while a connection keeps readers out (or
\* fails: referral_query); the close of the connection and the answer, which
\* need no lock, are the step GetUserClose.
GetUserCount(it, fail) ==
    /\ it \in Pending /\ it.req.ep = "get_user" /\ it.pc = "count_referrals"
    /\ LET user_id == it.req.user_id IN
       IF fail
       THEN GetUserLeave(it, get_user_data_except(user_id), "referral_query",
                         it.loc.now_at)
       ELSE IF ~CanRead
       THEN FALSE
       ELSE GetUserLeave(it, Ret(FullProfile(user_id, it.loc.user, it.loc.is_premium,
                                             CountReferrals(user_id))),
                         "none", it.loc.now_at)
    /\ UNCHANGED <<users, referrals, BOT_TOKEN, useDone, initial, vin, vres>>

\* the connection is closed, get_user_data returns and get_user answers
GetUserClose(it) ==
    /\ it \in Pending /\ it.req.ep = "get_user" /\ it.pc = "close"
    /\ inflight' = Remove(it)
    /\ out' = get_user(it.req, it.loc.r, it.loc.fail, it.loc.now_at)
    /\ UNCHANGED <<users, referrals, BOT_TOKEN, useDone, initial, vin, vres>>

(***************************************************************************)
(* send_message_to_user, shared by handle_action and create_invoice.       *)
(***************************************************************************)
SendReplies == {"sent", "network_error"}
RedirectBody == [status |-> "ok", redirect |-> "bot"]

SendMessageCall(user_id, text) ==
    [api |-> "sendMessage", chat_id |-> user_id, text |-> text,
     parse_mode |-> "Markdown"]

\* the handler awaits send_message_to_user(user_id, text) and returns RedirectBody
StartSend(req, text) ==
    IF BOT_TOKEN = ""
    THEN /\ out' = Event(req, Http(Ret(None), RedirectBody), "no_token", <<>>, NoTime)
         /\ UNCHANGED inflight
    ELSE /\ CanAccept
         /\ inflight' = inflight (+) SetToBag({Item(req, "send_message",
                                                    [text |-> text])})
         /\ out' = NoOut

\* await session.post(url, json=...)
SendMessage(it, reply) ==
    /\ it \in Pending /\ it.pc = "send_message"
    /\ LET r == IF reply = "network_error"
                THEN Except("send_message_to_user", None)
                ELSE Ret(None)
       IN  /\ inflight' = Remove(it)
           /\ out' = Event(it.req, Http(r, RedirectBody),
                           IF reply = "sent" THEN "none" ELSE reply,
                           <<SendMessageCall(it.req.user_id, it.loc.text)>>, NoTime)
    /\ UNCHANGED <<users, referrals, BOT_TOKEN, useDone, initial, vin, vres>>

(***************************************************************************)
(* POST /api/action: handle_action and increment_readings.                 *)
(***************************************************************************)
\* mutant of ActionBranch: every action but use_reading redirects to the bot
ActionBranchElseRedirect(action) ==
    IF action = "use_reading" THEN "increment" ELSE "redirect"

\* the branch of handle_action taken for an action string
ActionBranch(action) ==
    IF action = "use_reading" THEN "increment"
    ELSE IF action = "buy_subscription" THEN "redirect"
    ELSE "default"

OkBody == [status |-> "ok"]

StartAction(user_id, action, data) ==
    LET req == ActionReq(user_id, action, data) IN
    /\ CASE ActionBranch(action) = "increment" ->
                /\ CanAccept /\ UseIssued < MaxUse
                /\ inflight' = inflight (+) SetToBag({Item(req, "inc_update", NoLoc)})
                /\ out' = NoOut
         [] ActionBranch(action) = "redirect" ->
                StartSend(req, "subscribe: /start, then Subscription")
         [] OTHER ->
                /\ out' = Event(req, Http(Ret(None), OkBody), "none", <<>>, NoTime)
                /\ UNCHANGED inflight
    /\ UNCHANGED <<users, referrals, BOT_TOKEN, useDone, initial, vin, vres>>

\* increment_readings has returned r: handle_action returns {"status": "ok"}
IncDone(it, r, fail) ==
    /\ inflight' = Remove(it)
    /\ out' = Event(it.req, Http(r, OkBody), fail, <<>>, NoTime)
    /\ useDone' = [u \in DOMAIN useDone |->
                      IF u = it.req.user_id /\ it.req.action = "use_reading"
                                            /\ fail = "none"
                      THEN useDone[u] + 1 ELSE useDone[u]]

\* mutant of CanWrite: the UPDATE does not wait for the write lock
CanWriteUnlocked == TRUE

\* a connection's UPDATE proceeds when no other connection holds the write lock
CanWrite == ~WriteLocked

\* free_readings_used + 1
NewValue(v) == v + 1

\* UPDATE users SET free_readings_used = free_readings_used + 1 WHERE user_id = ?
\* the rows the statement changes, with their new value, pending until the commit
UpdateWrites(user_id) ==
    {<<u, NewValue(users[u].free_readings_used)>> : u \in DOMAIN users \cap {user_id}}

\* increment_readings leaves "async with aiosqlite.connect" with the result r:
\* the connection is still to be closed, and the close is awaited
IncLeave(it, r, fail) ==
    /\ inflight' = Replace(it, Item(it.req, "inc_close", [r |-> r, fail |-> fail]))
    /\ out' = NoOut
    /\ UNCHANGED <<useDone>>

\* aiosqlite.connect (which touches no shared state), then the UPDATE.  A
\* connect that fails leaves no connection to close.
IncUpdate(it, fail) ==
    /\ it \in Pending /\ it.pc = "inc_update"
    /\ IF fail = "connect"
       THEN IncDone(it, Except("increment_readings", None), fail)
       ELSE IF fail = "update"
       THEN IncLeave(it, Except("increment_readings", None), fail)
       ELSE /\ CanWrite
            /\ inflight' = Replace(it, Item(it.req, "inc_commit",
                                           [writes |-> UpdateWrites(it.req.user_id)]))
            /\ out' = NoOut
            /\ UNCHANGED <<useDone>>
    /\ UNCHANGED <<users, referrals, BOT_TOKEN, initial, vin, vres>>

\* await db.commit(): the pending writes become visible to every connection
\* and the write lock is released.  A commit that fails writes nothing: with
\* "database is locked" (fail = "commit_locked") the connection keeps its lock
\* until it is closed, with any other error (fail = "commit_refused") SQLite
\* rolls the transaction back and the lock is released.
IncCommit(it, fail) ==
    /\ it \in Pending /\ it.pc = "inc_commit"
    /\ IF fail # "none"
       THEN /\ IncLeave(it, Except("increment_readings", None), fail)
            /\ UNCHANGED users
       ELSE /\ IncLeave(it, Ret(None), "none")
            /\ users' = [u \in DOMAIN users |->
                           IF \E w \in it.loc.writes : w[1] = u
                           THEN [users[u] EXCEPT !.free_readings_used =
                                    (CHOOSE w \in it.loc.writes : w[1] = u)[2]]
                           ELSE users[u]]
    /\ UNCHANGED <<referrals, BOT_TOKEN, initial, vin, vres>>

\* the connection is closed, increment_readings returns and handle_action
\* answers
IncClose(it) ==
    /\ it \in Pending /\ it.pc = "inc_close"
    /\ IncDone(it, it.loc.r, it.loc.fail)
    /\ UNCHANGED <<users, referrals, BOT_TOKEN, initial, vin, vres>>

(***************************************************************************)
(* POST /api/create-invoice: create_invoice and create_stars_invoice.      *)
(***************************************************************************)
BotReplies == {"network_error", "http_error", "ok_false", "ok_no_result", "ok_link"}
InvoiceLink == "https://t.me/$invoice"

CreateInvoiceCall(user_id) ==
    [api |-> "createInvoiceLink", payload |-> <<"subscription_", user_id>>,
     currency |-> "XTR", amount |-> STARS_PRICE]

\* mutant of InvoiceBranch: every method but stars goes to the bot
InvoiceBranchElseRedirect(method) ==
    IF method = "stars" THEN "stars" ELSE "redirect"

\* the branch of create_invoice taken for a method string
InvoiceBranch(method) ==
    IF method = "stars" THEN "stars"
    ELSE IF method = "yookassa" THEN "redirect"
    ELSE "error"

\* create_invoice's return for the link create_stars_invoice gave
InvoiceBody(invoice_link) ==
    IF Truthy(invoice_link)
    THEN [status |-> "ok", invoice_link |-> invoice_link]
    ELSE [status |-> "error", message |-> "Failed to create invoice"]

\* create_stars_invoice after the reply of the Bot API
StarsResult(reply) ==
    CASE reply = "network_error" -> Except("create_stars_invoice", None)
      [] reply = "ok_no_result" -> Except("create_stars_invoice", None)
      [] reply = "ok_link" -> Ret(InvoiceLink)
      [] OTHER -> Ret(None)

StartInvoice(user_id, product, method) ==
    LET req == InvoiceReq(user_id, product, method) IN
    /\ CASE InvoiceBranch(method) = "stars" ->
                IF BOT_TOKEN = ""
                THEN /\ out' = Event(req, Http(Ret(None), InvoiceBody(None)),
                                     "no_token", <<>>, NoTime)
                     /\ UNCHANGED inflight
                ELSE /\ CanAccept
                     /\ inflight' = inflight (+)
                                      SetToBag({Item(req, "post_invoice", NoLoc)})
                     /\ out' = NoOut
         [] InvoiceBranch(method) = "redirect" ->
                StartSend(req, "pay in the bot: /start, Subscription")
         [] OTHER ->
                /\ out' = Event(req, Http(Ret(None), [status |-> "error"]),
                                "none", <<>>, NoTime)
                /\ UNCHANGED inflight
    /\ UNCHANGED <<users, referrals, BOT_TOKEN, useDone, initial, vin, vres>>

\* async with session.post(url, json=payload) as resp
PostInvoice(it, reply) ==
    /\ it \in Pending /\ it.pc = "post_invoice"
    /\ LET r == StarsResult(reply) IN
       /\ inflight' = Remove(it)
       /\ out' = Event(it.req, Http(r, InvoiceBody(r.value)),
                       IF reply = "ok_link" THEN "none" ELSE reply,
                       <<CreateInvoiceCall(it.req.user_id)>>, NoTime)
    /\ UNCHANGED <<users, referrals, BOT_TOKEN, useDone, initial, vin, vres>>

(***************************************************************************)
(* The Init-Data Verifier of spec section 4.1.  src/api.py holds no such   *)
(* routine, so this part follows the specification's algorithm, step by    *)
(* step.  A string is a sequence of atoms; an atom is <<"chr", c>> for a   *)
(* run of ordinary characters c, or a separator (&, =, newline).           *)
(* HMAC-SHA256 is an injective constructor: two digests are equal exactly  *)
(* when key and message are.  A lowercase-hex rendering of a digest is one *)
(* atom; HexFlipped is that rendering with one character changed.          *)
(***************************************************************************)
Chr(c) == <<"chr", c>>
Amp == Chr("&")
Eq == Chr("=")
Lf == Chr("LF")
NoInput == <<>>
NotVerified == [auth |-> FALSE, user |-> <<>>, hmacs |-> 0 - 1]

HmacSha256(key, message) == <<"hmac", key, message>>
Hex(digest) == <<"hex", digest>>
HexFlipped(digest) == <<"hex_flipped", digest>>

\* step 1: the segments between ampersands
RECURSIVE SplitAmp(_)
SplitAmp(s) ==
    IF \A i \in DOMAIN s : s[i] # Amp THEN <<s>>
    ELSE LET i == CHOOSE i \in DOMAIN s :
                      s[i] = Amp /\ \A j \in 1..(i - 1) : s[j] # Amp
         IN  <<SubSeq(s, 1, i - 1)>> \o SplitAmp(SubSeq(s, i + 1, Len(s)))

WellFormedPair(seg) == \E i \in DOMAIN seg : seg[i] = Eq

\* mutant of SplitPair: a bare split, which keeps what follows the last "="
SplitPairLast(seg) ==
    LET i == CHOOSE i \in DOMAIN seg : seg[i] = Eq /\ \A j \in (i + 1)..Len(seg) : seg[j] # Eq
    IN  <<SubSeq(seg, 1, i - 1), SubSeq(seg, i + 1, Len(seg))>>

\* step 1: a pair is split on its first "=" only
SplitPair(seg) ==
    LET i == CHOOSE i \in DOMAIN seg : seg[i] = Eq /\ \A j \in 1..(i - 1) : seg[j] # Eq
    IN  <<SubSeq(seg, 1, i - 1), SubSeq(seg, i + 1, Len(seg))>>

\* ascending byte order of the keys the model uses
ByteOrder == <<"auth_date", "hash", "query_id", "user">>
Rank(key) == IF \E i \in DOMAIN ByteOrder : key = <<Chr(ByteOrder[i])>>
             THEN CHOOSE i \in DOMAIN ByteOrder : key = <<Chr(ByteOrder[i])>>
             ELSE Len(ByteOrder) + 1

\* step 3: the pairs sorted by key, each as key=value, joined by one newline
RECURSIVE Canonical(_)
Canonical(pairs) ==
    IF pairs = {} THEN <<>>
    ELSE LET p == CHOOSE p \in pairs : \A q \in pairs : Rank(p[1]) <= Rank(q[1])
             rest == pairs \ {p}
         IN  p[1] \o <<Eq>> \o p[2]
               \o (IF rest = {} THEN <<>> ELSE <<Lf>> \o Canonical(rest))

\* steps 4 and 5
SecretKey(bot_token) == HmacSha256("WebAppData", bot_token)
Calculated(bot_token, canonical) == Hex(HmacSha256(SecretKey(bot_token), canonical))

\* JSON values of the user field the model uses: one well formed (its name holds
\* an "="), the others malformed
UserJson == <<Chr("{id:7,first_name:a"), Eq, Chr("b}")>>
BadJson == <<Chr("{id:7,first_name")>>
JsonLoads(text) ==
    IF text = UserJson THEN [ok |-> TRUE, value |-> [id |-> 7, first_name |-> "a=b"]]
    ELSE [ok |-> FALSE, value |-> <<>>]

Unauthenticated(hmacs) == [auth |-> FALSE, user |-> <<>>, hmacs |-> hmacs]

\* steps 1 to 7
Verify(raw, bot_token) ==
    LET segs == SplitAmp(raw)
        ok == \A i \in DOMAIN segs : WellFormedPair(segs[i])
        pairs == {SplitPair(segs[i]) : i \in DOMAIN segs}
        hashes == {p \in pairs : p[1] = <<Chr("hash")>>}
        rest == pairs \ hashes
        users_ == {p \in rest : p[1] = <<Chr("user")>>}
    IN  IF bot_token = "" \/ ~ok \/ hashes = {} THEN Unauthenticated(0)
        ELSE IF (CHOOSE p \in hashes : TRUE)[2] # <<Calculated(bot_token, Canonical(rest))>>
        THEN Unauthenticated(2)
        ELSE IF users_ = {} \/ ~JsonLoads((CHOOSE p \in users_ : TRUE)[2]).ok
        THEN Unauthenticated(2)
        ELSE [auth |-> TRUE, user |-> JsonLoads((CHOOSE p \in users_ : TRUE)[2]).value,
              hmacs |-> 2]

(***************************************************************************)
(* The inputs of the verifier: what a client sends.  fields are the pairs  *)
(* Telegram signed with the token signer; the client sends them in the     *)
(* order given, with the hash of mode, and perhaps a segment with no "=".  *)
(***************************************************************************)
BotTokens == {"", "111:AAA", "222:BBB"}
HashModes == {"absent", "valid", "flipped", "stale"}

FieldSets ==
    {f \in [{"auth_date", "query_id", "user"} -> {<<>>, <<Chr("1700")>>, UserJson, BadJson}] :
        /\ f["auth_date"] = <<Chr("1700")>>
        /\ f["query_id"] \in {<<>>, <<Chr("1700")>>}
        /\ f["user"] \in {<<>>, UserJson, BadJson}}

\* Telegram's data-check-string: the present fields in ascending key order
RECURSIVE DataCheckString(_, _)
DataCheckString(fields, i) ==
    IF i > Len(ByteOrder) THEN <<>>
    ELSE LET k == ByteOrder[i]
             tail == DataCheckString(fields, i + 1)
         IN  IF k \in DOMAIN fields /\ fields[k] # <<>>
             THEN <<Chr(k), Eq>> \o fields[k] \o (IF tail = <<>> THEN <<>> ELSE <<Lf>> \o tail)
             ELSE tail

TelegramHash(fields, token) ==
    Hex(HmacSha256(HmacSha256("WebAppData", token), DataCheckString(fields, 1)))

\* the hash the client sends: Telegram's, one with a character changed, or the
\* one Telegram gave for the same fields without query_id and with another user
HashSent(sc) ==
    CASE sc.mode = "valid" -> <<TelegramHash(sc.fields, sc.signer)>>
      [] sc.mode = "flipped" ->
            <<HexFlipped(HmacSha256(HmacSha256("WebAppData", sc.signer),
                                    DataCheckString(sc.fields, 1)))>>
      [] OTHER -> <<TelegramHash([sc.fields EXCEPT !["user"] = <<Chr("{id:8}")>>],
                                 sc.signer)>>

SentKeys(sc) ==
    {k \in DOMAIN sc.fields : sc.fields[k] # <<>>}
        \cup (IF sc.mode = "absent" THEN {} ELSE {"hash"})

\* the raw string: the segments in the order sc.order, joined by "&"
RECURSIVE Encode(_, _)
Encode(sc, i) ==
    IF i > Len(sc.order) THEN (IF sc.junk THEN <<Chr("junk")>> ELSE <<>>)
    ELSE LET k == sc.order[i]
             seg == <<Chr(k), Eq>> \o (IF k = "hash" THEN HashSent(sc) ELSE sc.fields[k])
             tail == Encode(sc, i + 1)
         IN  seg \o (IF tail = <<>> THEN <<>> ELSE <<Amp>> \o tail)

Orders(keys) ==
    {o \in [1..Cardinality(keys) -> keys] : \A i, j \in DOMAIN o : o[i] = o[j] => i = j}

Scenarios ==
    {sc \in [fields : FieldSets, mode : HashModes, signer : BotTokens \ {"222:BBB"},
             junk : BOOLEAN, order : UNION {Orders(K) : K \in SUBSET {ByteOrder[i] : i \in DOMAIN ByteOrder}}] :
        /\ {sc.order[i] : i \in DOMAIN sc.order} = SentKeys(sc)
        /\ sc.junk => sc.mode = "valid"}

VInit ==
    /\ users = <<>> /\ referrals = {} /\ BOT_TOKEN \in BotTokens
    /\ inflight = EmptyBag /\ out = NoOut
    /\ useDone = [u \in DOMAIN users |-> 0]
    /\ initial = [u \in UserIds |-> 0]
    /\ \E sc \in Scenarios : vin = [raw |-> Encode(sc, 1), sc |-> sc]
    /\ vres = NotVerified

VerifyInitData ==
    /\ vin # NoInput /\ vres = NotVerified
    /\ vres' = Verify(vin.raw, BOT_TOKEN)
    /\ UNCHANGED <<svars, vin>>

VNext == VerifyInitData

SpecVerifier == VInit /\ [][VNext]_vars

(***************************************************************************)
(* The service.                                                            *)
(***************************************************************************)
Row(user_id, first_name, zodiac_sign, subscription_until, used, bonus) ==
    [user_id |-> user_id, first_name |-> first_name, zodiac_sign |-> zodiac_sign,
     subscription_until |-> subscription_until, free_readings_used |-> used,
     referral_bonus_days |-> bonus]

\* rows the bot may have written for user 1; user 2 has no row
SampleRows ==
    {Row(1, None, None, None, 3, 0),
     Row(1, "Ann", "dragon", "soon", 3, 7),
     Row(1, "Ann", "pisces", IsoTimes[2], 3, 7)}

GetUserFails == {"none", "connect", "user_query"}
IncFails == {"none", "connect", "update"}
CommitFails == {"none", "commit_locked", "commit_refused"}
\* the configurations a behaviour starts from: BOT_TOKEN is set in one, unset
\* in the others
Configs == {<<row, IF row.subscription_until # "soon" THEN "" ELSE "123456:TOKEN">> :
              row \in SampleRows}

Init ==
    /\ \E c \in Configs : users = [u \in {1} |-> c[1]] /\ BOT_TOKEN = c[2]
    /\ referrals = {<<1, 2>>, <<1, 5>>, <<5, 1>>}
    /\ inflight = EmptyBag
    /\ out = NoOut
    /\ useDone = [u \in DOMAIN users |-> 0]
    /\ initial = [u \in UserIds |->
                    IF u \in DOMAIN users THEN users[u].free_readings_used ELSE 0]
    /\ vin = NoInput
    /\ vres = NotVerified

Next ==
    \/ \E u \in UserIds : StartGetUser(u)
    \/ \E it \in Pending, fail \in GetUserFails, now \in Now : GetUserSelect(it, fail, now)
    \/ \E it \in Pending, fail \in BOOLEAN : GetUserCount(it, fail)
    \/ \E it \in Pending : GetUserClose(it)
    \/ \E i \in ActionInputs : StartAction(i[1], i[2][1], i[2][2])
    \/ \E it \in Pending, fail \in IncFails : IncUpdate(it, fail)
    \/ \E it \in Pending, fail \in CommitFails : IncCommit(it, fail)
    \/ \E it \in Pending : IncClose(it)
    \/ \E i \in InvoiceInputs : StartInvoice(i[1], i[2], i[3])
    \/ \E it \in Pending, reply \in BotReplies : PostInvoice(it, reply)
    \/ \E it \in Pending, reply \in SendReplies : SendMessage(it, reply)

Spec == Init /\ [][Next]_vars

(***************************************************************************)
(* Properties.                                                             *)
(***************************************************************************)
Sent == out # NoOut
SentBy(ep) == Sent /\ out.req.ep = ep
SentAction(action) == SentBy("action") /\ out.req.action = action
Quiescent == inflight = EmptyBag

\* C1: for an existing user u, once every request has completed, the stored
\* free_readings_used of u is its initial value plus the number of use_reading
\* requests for u that met no storage failure: with no storage failure, plus
\* the number of use_reading requests for u (none is lost, nothing else changes
\* the counter); and every use_reading request is answered {status: ok}.
C1_CounterCountsUseReading ==
    /\ Quiescent =>
          \A u \in DOMAIN users :
              users[u].free_readings_used = initial[u] + useDone[u]
    /\ SentAction("use_reading") => (out.status = 200 /\ out.body = [status |-> "ok"])

C1_Witness ==
    /\ Quiescent /\ useDone[1] >= 2
    /\ users[1].free_readings_used = initial[1] + useDone[1]
    /\ SentAction("use_reading") /\ out.fail = "none"

\* C2: action = compatibility is answered {status: ok, score: N}, N being
\* data.score when data has a score key and 75 otherwise.
C2_CompatibilityScore ==
    SentAction("compatibility") =>
        /\ out.status = 200
        /\ out.body = [status |-> "ok",
                       score |-> IF "score" \in DOMAIN out.req.data
                                 THEN out.req.data.score ELSE 75]

\* C3: a tarot_reading request for an existing user adds exactly 1 to the
\* stored counter of that user and is answered {status: ok}, as use_reading does.
C3_TarotReadingIncrements ==
    [][(out' # NoOut /\ out'.req.ep = "action" /\ out'.req.action = "tarot_reading"
          /\ out'.req.user_id \in DOMAIN users)
        => (/\ out'.status = 200 /\ out'.body = [status |-> "ok"]
            /\ users'[out'.req.user_id].free_readings_used
                 = users[out'.req.user_id].free_readings_used + 1)]_vars

\* C4: a request whose action is outside the recognized set is answered exactly
\* {status: ok}, and the step that answers it changes neither table, suspends
\* nothing and has made no Bot API call.
C4_UnrecognizedActionNoEffect ==
    [][(out' # NoOut /\ out'.req.ep = "action" /\ out'.req.action \notin Recognized)
        => (/\ out'.status = 200 /\ out'.body = [status |-> "ok"]
            /\ out'.calls = <<>>
            /\ users' = users /\ referrals' = referrals /\ inflight' = inflight)]_vars

C4_Witness ==
    /\ SentAction("dance") /\ out.body = [status |-> "ok"] /\ out.calls = <<>>
    /\ ~Quiescent

\* C5: for a user id with no row, the resolver returns a record with usage
\* counter 0, referral count 0, premium false and the default zodiac label and
\* emoji.
C5_AbsentProfileDefaults ==
    (SentBy("get_user") /\ out.req.user_id \notin DOMAIN users /\ out.fail = "none") =>
        /\ out.status = 200
        /\ out.body.freeUsed = 0 /\ out.body.isPremium = FALSE
        /\ "referrals" \in DOMAIN out.body /\ out.body.referrals = 0
        /\ "zodiac" \in DOMAIN out.body /\ out.body.zodiac = "Oven"
        /\ "zodiacEmoji" \in DOMAIN out.body /\ out.body.zodiacEmoji = "U+2648"

\* the expiry sub is a timestamp strictly after the time now
StrictlyFuture(sub, now) ==
    /\ sub # None /\ sub # ""
    /\ \E i \in DOMAIN IsoTimes : IsoTimes[i] = sub /\ i - 1 > now

\* C6 as stated: for every existing user, the isPremium the resolver returns
\* is true exactly when subscription_until is present and strictly greater than
\* the current time at the moment of resolution; an absent expiry gives false.
\* The time of the resolution is the one it read (out.now_at).
C6_PremiumIffStrictlyFuture ==
    (SentBy("get_user") /\ out.req.user_id \in DOMAIN users) =>
        LET sub == users[out.req.user_id].subscription_until IN
        /\ out.status = 200
        /\ sub = None => out.body.isPremium = FALSE
        /\ out.now_at # NoTime =>
              out.body.isPremium = StrictlyFuture(sub, out.now_at)

\* C6 amended: for an existing user whose resolution meets no storage failure,
\* isPremium is true exactly when subscription_until is present, is a
\* timestamp, and is strictly greater than the time read at resolution; when
\* storage fails at any point (connect, user query, referral count query) the
\* flag is false whatever the expiry.
C6_PremiumIffFutureUnlessStorageFails ==
    (SentBy("get_user") /\ out.req.user_id \in DOMAIN users) =>
        LET sub == users[out.req.user_id].subscription_until IN
        /\ out.status = 200
        /\ out.body.isPremium =
              IF out.fail \in {"none", "parse"}
              THEN StrictlyFuture(sub, out.now_at)
              ELSE FALSE

\* the expiry equals the time read: not premium
C6_Witness ==
    /\ SentBy("get_user") /\ out.fail = "none" /\ out.req.user_id \in DOMAIN users
    /\ out.now_at # NoTime
    /\ IsoTimes[out.now_at + 1] = users[out.req.user_id].subscription_until
    /\ out.body.isPremium = FALSE

\* C7: when storage fails during resolution, the resolver returns the record it
\* returns for an absent user with that id, field for field.
C7_FailureProfileIsAbsentProfile ==
    (SentBy("get_user") /\ out.fail # "none") =>
        (out.status = 200 /\ out.body = AbsentProfile(out.req.user_id))

\* C8 as stated: every method other than stars is answered {status: ok,
\* redirect: "bot"}, and only stars asks the Bot API for a link.
C8_AnyOtherMethodRedirects ==
    SentBy("create_invoice") =>
        /\ out.req.method # "stars" =>
              (out.status = 200 /\ out.body = [status |-> "ok", redirect |-> "bot"])
        /\ (\E i \in DOMAIN out.calls : out.calls[i].api = "createInvoiceLink")
              => out.req.method = "stars"

\* C8 amended: yookassa is answered {status: ok, redirect: "bot"}; a method that
\* is neither stars nor yookassa is answered {status: error} with no Bot API
\* call; only stars asks the Bot API for a link.
C8_OnlyYookassaRedirects ==
    SentBy("create_invoice") =>
        /\ out.status = 200
        /\ out.req.method = "yookassa" => out.body = [status |-> "ok", redirect |-> "bot"]
        /\ out.req.method \notin {"stars", "yookassa"} =>
              (out.body = [status |-> "error"] /\ out.calls = <<>>)
        /\ (\E i \in DOMAIN out.calls : out.calls[i].api = "createInvoiceLink")
              => out.req.method = "stars"

C8_Witness ==
    /\ SentBy("create_invoice") /\ out.req.method = "card"
    /\ out.body = [status |-> "error"] /\ out.calls = <<>>

\* C9: no request ends in an unhandled exception, whatever storage or Bot API
\* failure it meets: every response is a JSON body, a failed increment is
\* answered {status: ok}, and a stars invoice without a link has status error.
C9_NoUnhandledException ==
    Sent =>
        /\ out.status = 200
        /\ (SentAction("use_reading") /\ out.fail # "none") =>
              out.body = [status |-> "ok"]
        /\ (SentBy("create_invoice") /\ out.req.method = "stars" /\ out.fail # "none") =>
              out.body.status = "error"

C9_Witness ==
    /\ SentAction("use_reading") /\ out.fail = "commit_locked"
    /\ out.status = 200 /\ out.body = [status |-> "ok"]
    /\ users[1].free_readings_used = initial[1] + useDone[1]

\* C10: the verifier returns the embedded user object exactly when the hash sent
\* is the HMAC-SHA256 signature of the canonical remaining pairs under the key
\* derived from the configured bot token (and the pairs and the user JSON are
\* well formed); for every other input it returns the one outcome
\* "unauthenticated", with no part of the payload, and a payload with no hash is
\* rejected before any HMAC is computed.
C10_VerifierAuthenticatesIffSigned ==
    (vin # NoInput /\ vres # NotVerified) =>
        LET sc == vin.sc IN
        IF /\ sc.mode = "valid" /\ sc.signer = BOT_TOKEN /\ BOT_TOKEN # ""
           /\ ~sc.junk /\ sc.fields["user"] = UserJson
        THEN vres = [auth |-> TRUE, user |-> [id |-> 7, first_name |-> "a=b"], hmacs |-> 2]
        ELSE /\ vres.auth = FALSE /\ vres.user = <<>>
             /\ sc.mode = "absent" => vres.hmacs = 0

\* a signed payload sent with the hash first and the user before auth_date
C10_Witness ==
    /\ vin # NoInput /\ vres # NotVerified /\ vres.auth
    /\ vin.sc.order[1] = "hash" /\ vin.sc.order[2] = "user"
    /\ vin.sc.fields["query_id"] # <<>>

====
